---- MODULE Spec2Model ----
(***************************************************************************)
(* Model of dashboard.py: the Streamlit script of the Ainaa sales          *)
(* dashboard.  One run of the script is one step: it reads the two sidebar *)
(* widgets (page radio, file uploader), loads the table (try_read_csv or   *)
(* the session-held table) and renders the selected page.                  *)
(*                                                                         *)
(* Text is a sequence of one-character strings, so that decoding,          *)
(* splitting, lower-casing, substring matching, numeric and date parsing   *)
(* are computed and not assumed.                                           *)
(***************************************************************************)
EXTENDS Integers, Sequences, FiniteSets, TLC

VARIABLES avail, uploaded, session, page, out

vars == <<avail, uploaded, session, page, out>>

(***************************************************************************)
(* Characters                                                              *)
(***************************************************************************)

\* The characters of the model in code-point order (Python compares str by
\* code point): TAB LF SP , . / 0-9 : ; A-Z a-z.
CharOrder ==
    << "\t", "\n", " ", ",", ".", "/",
       "0", "1", "2", "3", "4", "5", "6", "7", "8", "9", ":", ";",
       "A", "B", "C", "D", "E", "F", "G", "H", "I", "J", "K", "L", "M",
       "N", "O", "P", "Q", "R", "S", "T", "U", "V", "W", "X", "Y", "Z",
       "a", "b", "c", "d", "e", "f", "g", "h", "i", "j", "k", "l", "m",
       "n", "o", "p", "q", "r", "s", "t", "u", "v", "w", "x", "y", "z" >>

Chars == {CharOrder[i] : i \in 1..Len(CharOrder)}

\* A byte that is not valid UTF-8 (0xFF); every other byte is ASCII.
BadByte == "<FF>"

OrdOf == [c \in Chars |-> CHOOSE i \in 1..Len(CharOrder) : CharOrder[i] = c]

Ord(c) == OrdOf[c]

IsDigit(c) == Ord(c) >= Ord("0") /\ Ord(c) <= Ord("9")

IsUpper(c) == Ord(c) >= Ord("A") /\ Ord(c) <= Ord("Z")

\* str.lower() on one character.
LowerChar(c) == IF IsUpper(c) THEN CharOrder[Ord(c) - Ord("A") + Ord("a")] ELSE c

\* str.lower()
Lower(s) == [i \in 1..Len(s) |-> LowerChar(s[i])]

\* `kw in s` for strings: s has kw as a contiguous substring.
Contains(s, kw) ==
    \E i \in 1..(Len(s) - Len(kw) + 1) : SubSeq(s, i, i + Len(kw) - 1) = kw

\* Python's str < str: lexicographic by code point, a proper prefix first.
StrLess(a, b) ==
    \E i \in 1..(Len(b)) :
        /\ \A j \in 1..(i - 1) : j <= Len(a) /\ a[j] = b[j]
        /\ \/ Len(a) = i - 1
           \/ Len(a) >= i /\ Ord(a[i]) < Ord(b[i])

\* The decimal digits of a natural number, as text.
RECURSIVE NatText(_)
NatText(n) ==
    IF n < 10 THEN << CharOrder[Ord("0") + n] >>
    ELSE NatText(n \div 10) \o << CharOrder[Ord("0") + (n % 10)] >>

\* int(s) for a string of decimal digits.
RECURSIVE DigitsValue(_)
DigitsValue(s) ==
    IF s = << >> THEN 0
    ELSE 10 * DigitsValue(SubSeq(s, 1, Len(s) - 1)) + (Ord(s[Len(s)]) - Ord("0"))

IsDigits(s) == Len(s) > 0 /\ \A i \in 1..Len(s) : IsDigit(s[i])

\* str.split(sep) for a one-character separator, from position `from` on:
\* the fields between the occurrences of sep, empty fields kept.
RECURSIVE SplitFrom(_, _, _)
SplitFrom(s, sep, from) ==
    LET stop == CHOOSE i \in from..(Len(s) + 1) :
                    /\ i = Len(s) + 1 \/ s[i] = sep
                    /\ \A j \in from..(i - 1) : s[j] # sep
    IN  IF stop = Len(s) + 1 THEN << SubSeq(s, from, Len(s)) >>
        ELSE << SubSeq(s, from, stop - 1) >> \o SplitFrom(s, sep, stop + 1)

Split(s, sep) == SplitFrom(s, sep, 1)

\* The members of a set of indices in ascending order.
RECURSIVE Ascending(_)
Ascending(I) ==
    IF I = {} THEN << >>
    ELSE LET m == CHOOSE i \in I : \A j \in I : i <= j
         IN  <<m>> \o Ascending(I \ {m})

(***************************************************************************)
(* Cells and tables                                                        *)
(***************************************************************************)

\* A cell is a tagged value: missing (NaN / NaT), a number, a text or a
\* date (yyyymmdd).
Null == [k |-> "null", v |-> 0]

Num(n) == [k |-> "num", v |-> n]

Str(s) == [k |-> "str", v |-> s]

Date(d) == [k |-> "date", v |-> d]

IsNull(c) == c.k = "null"

\* pd.DataFrame(): no columns, no rows.
EmptyFrame == [columns |-> << >>, rows |-> << >>]

\* df.shape[1]
NCols(df) == Len(df.columns)

\* df.empty: some axis has length 0.
IsEmpty(df) == Len(df.columns) = 0 \/ Len(df.rows) = 0

\* df[col]: the cells of column j.
Column(df, j) == [i \in 1..Len(df.rows) |-> df.rows[i][j]]

\* df[col] = values: column j replaced, every other cell kept.
SetColumn(df, j, vals) ==
    [df EXCEPT !.rows = [i \in 1..Len(df.rows) |-> [df.rows[i] EXCEPT ![j] = vals[i]]]]

(***************************************************************************)
(* Ingestion: try_read_csv                                                 *)
(***************************************************************************)

\* file.getvalue().decode("utf-8", errors="ignore"): undecodable bytes are
\* dropped, the rest kept in order.
Decode(bytes) == SelectSeq(bytes, LAMBDA b : b # BadByte)

\* The strings read_csv reads as a missing value (its default na_values that
\* the model's characters can spell).
NaStrings ==
    { << >>, <<"N","A">>, <<"N","/","A">>, <<"n","/","a">>, <<"N","a","N">>,
      <<"n","a","n">>, <<"N","U","L","L">>, <<"n","u","l","l">>,
      <<"N","o","n","e">> }

\* A line the tokenizer skips (skip_blank_lines): empty, or only spaces and
\* tabs that are not the delimiter.
IsBlankLine(line, sep) ==
    \A i \in 1..Len(line) : line[i] \in {" ", "\t"} /\ line[i] # sep

\* The records of the text: its lines with the blank ones skipped, each split
\* into fields at the delimiter.
Records(text, sep) ==
    LET lines == SelectSeq(Split(text, "\n"), LAMBDA l : ~IsBlankLine(l, sep))
    IN  [k \in 1..Len(lines) |-> Split(lines[k], sep)]

\* The name of the column at position j of the header: an empty one becomes
\* "Unnamed: <position from 0>".
ColumnName(hdr, j) ==
    IF hdr[j] = << >>
    THEN <<"U","n","n","a","m","e","d",":"," ">> \o NatText(j - 1)
    ELSE hdr[j]

\* A name that came `seen` times before gets ".<seen>".
Deduplicated(name, seen) ==
    IF seen = 0 THEN name ELSE name \o <<".">> \o NatText(seen)

\* The column names read_csv makes of the header record.
HeaderNames(hdr) ==
    [j \in 1..Len(hdr) |->
        Deduplicated(ColumnName(hdr, j),
                     Cardinality({i \in 1..(j - 1) : ColumnName(hdr, i) = ColumnName(hdr, j)}))]

\* Field p of a record; a record that ends before p has no text there.
FieldAt(rec, p) == IF p <= Len(rec) THEN rec[p] ELSE << >>

\* The width of the table's records: that of the header, or of the first data
\* record when it is wider (its extra leading fields become the index).
Width(recs) ==
    IF Len(recs) >= 2 /\ Len(recs[2]) > Len(recs[1]) THEN Len(recs[2]) ELSE Len(recs[1])

\* Whether read_csv types the column at field p as numbers: every field of
\* it is an integer or missing.
ColumnIsNumeric(recs, p) ==
    \A i \in 2..Len(recs) :
        FieldAt(recs[i], p) \in NaStrings \/ IsDigits(FieldAt(recs[i], p))

\* The typed cell of a field of a column: a missing value for an NA string,
\* a number in a numeric column, else text.
InferCell(field, numeric) ==
    IF field \in NaStrings THEN Null
    ELSE IF numeric THEN Num(DigitsValue(field))
    ELSE Str(field)

\* The table of the records: the header's columns, one row per data record,
\* the first `lead` fields of each record being the index.
Frame(recs, lead) ==
    [columns |-> HeaderNames(recs[1]),
     rows |-> [i \in 1..(Len(recs) - 1) |->
                 [j \in 1..Len(recs[1]) |->
                     InferCell(FieldAt(recs[i + 1], lead + j),
                               ColumnIsNumeric(recs, lead + j))]]]

\* What the parser makes of the records, as [raised, df]:
\*   - no record at all: EmptyDataError;
\*   - a record after the first data record that is wider than Width:
\*     ParserError ("Expected n fields in line k, saw m");
\*   - else the table; a narrower record is padded with missing values.
ParseRecords(recs) ==
    IF Len(recs) = 0 THEN [raised |-> TRUE, df |-> EmptyFrame]
    ELSE IF \E i \in 3..Len(recs) : Len(recs[i]) > Width(recs)
    THEN [raised |-> TRUE, df |-> EmptyFrame]
    ELSE [raised |-> FALSE, df |-> Frame(recs, Width(recs) - Len(recs[1]))]

\* pd.read_csv(io.StringIO(content), sep=sep) with the C parser's defaults.
read_csv(text, sep) == ParseRecords(Records(text, sep))

\* A loop that tries the tab before the comma.
Separators_TabFirst == << "\t", ",", ";" >>

\* for sep in [",", "\t", ";"]
Separators == << ",", "\t", ";" >>

\* A loop that returns any parse that did not raise.
Accepts_AnyShape(r) == ~r.raised

\* if df.shape[1] > 1: return df
Accepts(r) == ~r.raised /\ NCols(r.df) > 1

\* The loop of try_read_csv from candidate k on: the first parse that does
\* not raise and has more than one column, else pd.DataFrame().
RECURSIVE TryFrom(_, _)
TryCandidate(r, content, k) == IF Accepts(r) THEN r.df ELSE TryFrom(content, k + 1)

TryFrom(content, k) ==
    IF k > Len(Separators) THEN EmptyFrame
    ELSE TryCandidate(read_csv(content, Separators[k]), content, k)

try_read_csv(file) == TryFrom(Decode(file), 1)

(***************************************************************************)
(* Role resolution                                                         *)
(***************************************************************************)

\* "date" in c.lower()
DateKeywords == { <<"d","a","t","e">> }

\* "name" in c.lower() or "customer" in c.lower()
CustomerKeywords == { <<"n","a","m","e">>, <<"c","u","s","t","o","m","e","r">> }

\* "total" in c.lower() or "amount" in c.lower()
AmountKeywords == { <<"t","o","t","a","l">>, <<"a","m","o","u","n","t">> }

\* "product" in c.lower() or "item" in c.lower()
ProductKeywords == { <<"p","r","o","d","u","c","t">>, <<"i","t","e","m">> }

\* The condition of the list comprehensions: the lower-cased column name
\* contains one of the keywords.
NameMatches(name, kws) == \E kw \in kws : Contains(Lower(name), kw)

\* [c for c in cols if <kw> in c.lower()]: the matching columns (their
\* positions) in column order.
MatchingColumns(cols, kws) ==
    Ascending({j \in 1..Len(cols) : NameMatches(cols[j], kws)})

\* The [-1] of a list: its last element.
FirstOf_Last(list) == IF Len(list) = 0 THEN 0 ELSE list[Len(list)]

\* The [0] of a list: its first element; 0 stands for the IndexError that
\* indexing an empty list raises.
FirstOf(list) == IF Len(list) = 0 THEN 0 ELSE list[1]

\* A role not looked up by the run.
NotAsked == -1

NoRoles == [date |-> NotAsked, customer |-> NotAsked, amount |-> NotAsked, product |-> NotAsked]

(***************************************************************************)
(* Coercion                                                                *)
(***************************************************************************)

IsLeap(y) == (y % 4 = 0 /\ y % 100 # 0) \/ y % 400 = 0

DaysIn(m, y) ==
    IF m = 2 THEN (IF IsLeap(y) THEN 29 ELSE 28)
    ELSE IF m \in {4, 6, 9, 11} THEN 30 ELSE 31

\* The day-first reading of a text dd/mm/yyyy; anything else, and any
\* impossible calendar date, is NaT.
ParseDayFirst(s) ==
    IF /\ Len(s) = 10
       /\ s[3] = "/" /\ s[6] = "/"
       /\ \A i \in {1, 2, 4, 5, 7, 8, 9, 10} : IsDigit(s[i])
    THEN LET d == DigitsValue(SubSeq(s, 1, 2))
             m == DigitsValue(SubSeq(s, 4, 5))
             y == DigitsValue(SubSeq(s, 7, 10))
         IN  IF m >= 1 /\ m <= 12 /\ d >= 1 /\ d <= DaysIn(m, y)
             THEN Date(y * 10000 + m * 100 + d)
             ELSE Null
    ELSE Null

\* pd.to_datetime(column, errors='coerce', dayfirst=True), cell by cell: a
\* date stays, a text is parsed day-first or becomes NaT, a number counts
\* nanoseconds from 1970-01-01.
to_datetime(cells) ==
    [i \in 1..Len(cells) |->
        CASE cells[i].k = "date" -> cells[i]
          [] cells[i].k = "str"  -> ParseDayFirst(cells[i].v)
          [] cells[i].k = "num"  -> Date(19700101)
          [] OTHER               -> Null]

\* pd.to_numeric(column, errors='coerce'), cell by cell: a number stays, a
\* text of digits is its value, any other text becomes NaN.
to_numeric(cells) ==
    [i \in 1..Len(cells) |->
        CASE cells[i].k = "num" -> cells[i]
          [] cells[i].k = "str" ->
                IF IsDigits(cells[i].v) THEN Num(DigitsValue(cells[i].v)) ELSE Null
          [] OTHER              -> Null]

\* .fillna(0)
fillna0(cells) == [i \in 1..Len(cells) |-> IF IsNull(cells[i]) THEN Num(0) ELSE cells[i]]

(***************************************************************************)
(* Aggregation                                                             *)
(***************************************************************************)

\* The order of two present values of one column: numbers and dates by
\* value, texts as Python compares str.
CellLess(a, b) ==
    IF a.k = "str" THEN StrLess(a.v, b.v) ELSE a.v < b.v

\* sum() of a numeric column: missing values are skipped.
RECURSIVE SumNum(_)
SumNum(cells) ==
    IF Len(cells) = 0 THEN 0
    ELSE (IF cells[1].k = "num" THEN cells[1].v ELSE 0) + SumNum(Tail(cells))

\* sum() of a text column: the present texts concatenated in row order.
RECURSIVE Concat(_)
Concat(cells) ==
    IF Len(cells) = 0 THEN << >>
    ELSE (IF cells[1].k = "str" THEN cells[1].v ELSE << >>) \o Concat(Tail(cells))

\* Whether a column holds text (dtype object): read_csv types a column as a
\* whole, so one text cell makes every present cell a text.
IsTextColumn(cells) == \E i \in 1..Len(cells) : cells[i].k = "str"

\* Series.sum() / the groupby sum of the cells of one group of a column.
SumOf(cells, text) ==
    IF text /\ IsTextColumn(cells) THEN Str(Concat(cells)) ELSE Num(SumNum(cells))

\* The elements of a sequence at the rows of a set, in row order.
Rows(seq, I) == LET idx == Ascending(I) IN [k \in 1..Len(idx) |-> seq[idx[k]]]

\* The sequence of a set of present values in ascending order.
RECURSIVE SortedKeys(_)
SortedKeys(S) ==
    IF S = {} THEN << >>
    ELSE LET m == CHOOSE x \in S : \A y \in S \ {x} : CellLess(x, y)
         IN  <<m>> \o SortedKeys(S \ {m})

\* The distinct present values of a column.
Present(cells) == {cells[i] : i \in {j \in 1..Len(cells) : ~IsNull(cells[j])}}

\* The sums of the groups of the keys in `order`.
SumsOf(order, keys, vals) ==
    [g \in 1..Len(order) |->
        [key |-> order[g],
         sum |-> SumOf(Rows(vals, {i \in 1..Len(keys) : keys[i] = order[g]}),
                       IsTextColumn(vals))]]

\* df.groupby(key)[val].sum(): one entry per distinct present key (rows with
\* a missing key are dropped: dropna=True), in ascending key order
\* (sort=True), with the sum of the group's values.
GroupSum(keys, vals) == SumsOf(SortedKeys(Present(keys)), keys, vals)

\* The entries of a groupby sum in the orders a descending sort by `sum` can
\* leave them in: a larger sum is always first; sort_values
\* sorts with kind='quicksort', which is not stable, so entries with equal
\* sums come out in any order.
RECURSIVE DescendingOrders(_)
DescendingOrders(S) ==
    IF S = {} THEN { << >> }
    ELSE UNION { { <<e>> \o rest : rest \in DescendingOrders(S \ {e}) } :
                 e \in {x \in S : \A y \in S : ~CellLess(x.sum, y.sum)} }

\* Whether sort_values can compare the sums: Python cannot order a number
\* and a text (TypeError).
Comparable(groups) ==
    \A i, j \in 1..Len(groups) : groups[i].sum.k = groups[j].sum.k

\* .head(n)
HeadN(seq, n) == SubSeq(seq, 1, IF Len(seq) < n THEN Len(seq) ELSE n)

\* .sort_values(ascending=False).head(n) of a groupby sum: every order the
\* sort can produce, cut to n entries.
TopN(groups, n) ==
    { HeadN(o, n) : o \in DescendingOrders({groups[g] : g \in 1..Len(groups)}) }

\* head(10) of the Home page
TopCustomersLimit == 10

\* head(20) of the Products page
TopProductsLimit == 20

\* A count of the distinct values that takes a missing one for a value.
NUnique_CountsMissing(cells) == Cardinality({cells[i] : i \in 1..Len(cells)})

\* Series.nunique(): the number of distinct present values.
NUnique(cells) == Cardinality(Present(cells))

\* x / n if n else 0, kept exact as numerator over denominator.
Average(total, n) == IF n # 0 THEN [num |-> total, den |-> n] ELSE [num |-> 0, den |-> 1]

(***************************************************************************)
(* What one run of the script shows                                        *)
(***************************************************************************)

NoMetrics == [total_sales |-> 0, total_orders |-> 0, total_customers |-> 0,
              avg_order |-> [num |-> 0, den |-> 1]]

NoCard == [total_spend |-> 0, orders |-> 0, avg_order |-> [num |-> 0, den |-> 1],
           last_purchase |-> Null]

\* The result of a run: kind is what the page ended with ("notice",
\* "warning", "info": a message; "error": an uncaught exception; "home",
\* "profile", "sales", "products": the page's content), computed is the work
\* the run did (role lookup, aggregation, table listing).
NoOutput ==
    [kind |-> "none", message |-> "", error |-> "", roles |-> NoRoles,
     computed |-> {}, metrics |-> NoMetrics, trend |-> << >>, top |-> << >>,
     options |-> << >>, selected |-> Null, card |-> NoCard, listing |-> << >>]

\* st.warning / st.info with a text and nothing else.
Message(kind, text, roles, computed) ==
    [NoOutput EXCEPT !.kind = kind, !.message = text, !.roles = roles,
                     !.computed = computed]

\* An exception that leaves the script: Streamlit shows the traceback.
Raised(error, roles, computed) ==
    [NoOutput EXCEPT !.kind = "error", !.error = error, !.roles = roles,
                     !.computed = computed]

(***************************************************************************)
(* Home page                                                               *)
(***************************************************************************)

\* df[date_col] = pd.to_datetime(df[date_col], errors='coerce', dayfirst=True)
CoerceDate(df, date_col) == SetColumn(df, date_col, to_datetime(Column(df, date_col)))

\* df[amt_col] = pd.to_numeric(df[amt_col], errors='coerce').fillna(0)
CoerceAmount(df, amt_col) == SetColumn(df, amt_col, fillna0(to_numeric(Column(df, amt_col))))

\* total_sales, total_orders, total_customers, avg_order
Metrics(total_sales, total_orders, total_customers) ==
    [total_sales |-> total_sales, total_orders |-> total_orders,
     total_customers |-> total_customers,
     avg_order |-> Average(total_sales, total_orders)]

\* The page on the coerced table: the four metrics, the sales trend and the
\* top customers.
HomeShow(df, roles) ==
    { [df  |-> df,
       out |-> [NoOutput EXCEPT
                  !.kind = "home", !.roles = roles,
                  !.computed = {"roles", "aggregate"},
                  !.metrics = Metrics(SumNum(Column(df, roles.amount)), Len(df.rows),
                                      NUnique(Column(df, roles.customer))),
                  !.trend = GroupSum(Column(df, roles.date), Column(df, roles.amount)),
                  !.top = top]] :
      top \in TopN(GroupSum(Column(df, roles.customer), Column(df, roles.amount)),
                   TopCustomersLimit) }

\* The page once the three lists of matching columns are indexed with [0],
\* in the order date, customer, amount: the first empty list raises.
HomeResolved(df, date_col, cust_col, amt_col) ==
    IF date_col = 0
    THEN { [df |-> df, out |-> Raised("IndexError", [NoRoles EXCEPT !.date = 0], {"roles"})] }
    ELSE IF cust_col = 0
    THEN { [df |-> df, out |-> Raised("IndexError",
                [NoRoles EXCEPT !.date = date_col, !.customer = 0], {"roles"})] }
    ELSE IF amt_col = 0
    THEN { [df |-> df, out |-> Raised("IndexError",
                [NoRoles EXCEPT !.date = date_col, !.customer = cust_col, !.amount = 0],
                {"roles"})] }
    ELSE HomeShow(CoerceAmount(CoerceDate(df, date_col), amt_col),
                  [NoRoles EXCEPT !.date = date_col, !.customer = cust_col,
                                  !.amount = amt_col])

HomePage(df) ==
    IF IsEmpty(df)
    THEN { [df |-> df, out |-> Message("warning", "Upload CSV untuk mula analisis.", NoRoles, {})] }
    ELSE HomeResolved(df, FirstOf(MatchingColumns(df.columns, DateKeywords)),
                      FirstOf(MatchingColumns(df.columns, CustomerKeywords)),
                      FirstOf(MatchingColumns(df.columns, AmountKeywords)))

(***************************************************************************)
(* Customer Profile page                                                   *)
(***************************************************************************)

\* df[cust_col].unique(): the distinct values, a missing one too, in order of
\* first appearance.
Unique(cells) ==
    Rows(cells, {i \in 1..Len(cells) : \A j \in 1..(i - 1) : cells[j] # cells[i]})

\* Whether sorted() can order the values: comparing NaN (a float) with a str
\* raises TypeError.
Sortable(vals) ==
    ~ (/\ \E i \in 1..Len(vals) : IsNull(vals[i])
       /\ \E i \in 1..Len(vals) : vals[i].k = "str")

\* sorted(values) of values sorted() can order (a lone NaN stays).
Sorted(vals) ==
    SortedKeys(Present(vals))
    \o (IF \E i \in 1..Len(vals) : IsNull(vals[i]) THEN <<Null>> ELSE << >>)

\* The latest of a set of dates, NaT when there is none.
Latest(S) == IF S = {} THEN Null ELSE CHOOSE d \in S : \A e \in S : e.v <= d.v

\* data[date_col].max()
MaxDate(cells) == Latest(Present(cells))

\* The rows (positions in I) that a descending sort by date can put first:
\* those of the latest present date; with only NaT left, the earliest row.
FirstByDate(I, present, dates) ==
    IF present = {} THEN {i \in I : \A j \in I : i <= j}
    ELSE {i \in present : \A j \in present : dates[j].v <= dates[i].v}

\* data.sort_values(date_col, ascending=False): later dates first, NaT last,
\* equal dates in any order (kind='quicksort'); the row positions.
RECURSIVE HistoryOrders(_, _)
HistoryOrders(I, dates) ==
    IF I = {} THEN { << >> }
    ELSE UNION { { <<i>> \o rest : rest \in HistoryOrders(I \ {i}, dates) } :
                 i \in FirstByDate(I, {i \in I : ~IsNull(dates[i])}, dates) }

\* The customer card.
Card(total_spend, orders, last_purchase) ==
    [total_spend |-> total_spend, orders |-> orders,
     avg_order |-> Average(total_spend, orders), last_purchase |-> last_purchase]

\* The page from the f-string of the card on, card being the values it
\* formats: selected.replace needs a str (AttributeError), last_purchase.date()
\* a date (ValueError: NaT does not support date); then the order history and
\* the spending trend of the customer's rows I.
ProfileCard(df, roles, shown, I, card) ==
    IF shown.selected.k # "str"
    THEN { [df |-> df, out |-> [shown EXCEPT !.kind = "error", !.error = "AttributeError"]] }
    ELSE IF IsNull(card.last_purchase)
    THEN { [df |-> df, out |-> [shown EXCEPT !.kind = "error", !.error = "ValueError"]] }
    ELSE { [df  |-> df,
            out |-> [shown EXCEPT
                       !.kind = "profile", !.card = card,
                       !.computed = {"roles", "aggregate", "listing"},
                       !.listing = [k \in 1..Len(order) |-> df.rows[order[k]]],
                       !.trend = GroupSum(Rows(Column(df, roles.date), I),
                                          Rows(Column(df, roles.amount), I))]] :
           order \in HistoryOrders(I, Column(df, roles.date)) }

\* data = df[df[cust_col] == selected] (NaN equals nothing) and the values
\* computed of it.
ProfileData(df, roles, shown, I) ==
    ProfileCard(df, roles, shown, I,
                Card(SumNum(Rows(Column(df, roles.amount), I)), Cardinality(I),
                     MaxDate(Rows(Column(df, roles.date), I))))

\* selected = st.selectbox("Pilih Customer", options): the entry the user
\* chose, the first one by default.
ProfileSelect(df, roles, options, selected) ==
    ProfileData(df, roles,
                [NoOutput EXCEPT !.roles = roles, !.computed = {"roles", "aggregate"},
                                 !.options = options, !.selected = selected],
                {i \in 1..Len(df.rows) :
                    ~IsNull(selected) /\ df.rows[i][roles.customer] = selected})

\* sorted(df[cust_col].unique()) of the coerced table, and the selectbox;
\* pick is the position the user chose in it (1: its default).
ProfileOptions(df, roles, uniq, pick) ==
    IF ~Sortable(uniq)
    THEN { [df |-> df, out |-> Raised("TypeError", roles, {"roles"})] }
    ELSE ProfileSelect(df, roles, Sorted(uniq),
                       Sorted(uniq)[IF pick <= Len(uniq) THEN pick ELSE 1])

ProfileShow(df, roles, pick) ==
    ProfileOptions(df, roles, Unique(Column(df, roles.customer)), pick)

\* The page once the three lists of matching columns are indexed with [0],
\* in the order customer, amount, date.
ProfileResolved(df, cust_col, amt_col, date_col, pick) ==
    IF cust_col = 0
    THEN { [df |-> df, out |-> Raised("IndexError", [NoRoles EXCEPT !.customer = 0], {"roles"})] }
    ELSE IF amt_col = 0
    THEN { [df |-> df, out |-> Raised("IndexError",
                [NoRoles EXCEPT !.customer = cust_col, !.amount = 0], {"roles"})] }
    ELSE IF date_col = 0
    THEN { [df |-> df, out |-> Raised("IndexError",
                [NoRoles EXCEPT !.customer = cust_col, !.amount = amt_col, !.date = 0],
                {"roles"})] }
    ELSE ProfileShow(CoerceDate(CoerceAmount(df, amt_col), date_col),
                     [NoRoles EXCEPT !.customer = cust_col, !.amount = amt_col,
                                     !.date = date_col],
                     pick)

ProfilePage(df, pick) ==
    IF IsEmpty(df)
    THEN { [df |-> df, out |-> Message("warning", "Upload CSV untuk mula.", NoRoles, {})] }
    ELSE ProfileResolved(df, FirstOf(MatchingColumns(df.columns, CustomerKeywords)),
                         FirstOf(MatchingColumns(df.columns, AmountKeywords)),
                         FirstOf(MatchingColumns(df.columns, DateKeywords)), pick)

(***************************************************************************)
(* All Sales and Products pages                                            *)
(***************************************************************************)

\* st.dataframe(df): the table as it is, whatever it holds.
SalesPage(df) ==
    { [df  |-> df,
       out |-> [NoOutput EXCEPT !.kind = "sales", !.computed = {"listing"},
                                !.listing = df.rows]] }

\* top_p of the groupby sum of the raw amount column.
ProductsShow(df, roles, sums) ==
    IF ~Comparable(sums)
    THEN { [df |-> df, out |-> Raised("TypeError", roles, {"roles", "aggregate"})] }
    ELSE { [df  |-> df,
            out |-> [NoOutput EXCEPT !.kind = "products", !.roles = roles,
                                     !.computed = {"roles", "aggregate"}, !.top = top]] :
           top \in TopN(sums, TopProductsLimit) }

\* The page with the list prod_col of the columns matching the product role
\* and the [0] of those matching the amount role.
ProductsResolved(df, prod_col, amt_col) ==
    IF Len(prod_col) = 0
    THEN { [df |-> df, out |-> Message("info", "Tiada column produk dalam fail CSV ni.",
                                       [NoRoles EXCEPT !.product = 0], {"roles"})] }
    ELSE IF amt_col = 0
    THEN { [df |-> df, out |-> Raised("IndexError",
                [NoRoles EXCEPT !.product = prod_col[1], !.amount = 0], {"roles"})] }
    ELSE ProductsShow(df, [NoRoles EXCEPT !.product = prod_col[1], !.amount = amt_col],
                      GroupSum(Column(df, prod_col[1]), Column(df, amt_col)))

ProductsPage(df) ==
    ProductsResolved(df, MatchingColumns(df.columns, ProductKeywords),
                     FirstOf(MatchingColumns(df.columns, AmountKeywords)))

(***************************************************************************)
(* The script                                                              *)
(***************************************************************************)

\* The choices of st.radio, line 97; the first is its default.
Pages == << "Home", "All Sales", "Customer Profile", "Products" >>

\* st.session_state before any upload: no "df" key.
NoSession == [has |-> FALSE, df |-> EmptyFrame]

RenderPage(pg, df, pick) ==
    CASE pg = "Home"             -> HomePage(df)
      [] pg = "Customer Profile" -> ProfilePage(df, pick)
      [] pg = "All Sales"        -> SalesPage(df)
      [] OTHER                   -> ProductsPage(df)

\* One run of the script, top to bottom: file is the uploader's content (has
\* = FALSE: no file), sess the session state, pg the radio's value.  With a
\* file the table is parsed afresh and stored in the session; without one the
\* stored table is used.  The page works on that very object, so what it
\* assigns to df's columns is what the session holds afterwards, also when
\* the page then raises.
Script(file, sess, pg, pick) ==
    IF ~file.has /\ ~sess.has
    THEN { [session |-> sess,
            out |-> Message("notice", "Upload CSV untuk mula guna dashboard.", NoRoles, {})] }
    ELSE { [session |-> [has |-> TRUE, df |-> r.df], out |-> r.out] :
           r \in RenderPage(pg, IF file.has THEN try_read_csv(file.bytes) ELSE sess.df, pick) }

(***************************************************************************)
(* Files the user uploads                                                  *)
(***************************************************************************)

\* The longest sales file of the combinatorial inputs, in data rows.
MaxRows == 2

\* The longest raw upload of the byte-level inputs.
MaxBytes == 5

\* The join of texts with a separator character.
RECURSIVE Join(_, _)
Join(parts, sep) ==
    IF Len(parts) = 0 THEN << >>
    ELSE IF Len(parts) = 1 THEN parts[1]
    ELSE parts[1] \o <<sep>> \o Join(Tail(parts), sep)

\* The CSV text of a sales file: a header line and one line per sale, the
\* fields in the order of the layout.
CsvText(layout, sales) ==
    LET header  == [j \in 1..Len(layout.cols) |-> layout.cols[j].name]
        line(r) == [j \in 1..Len(layout.cols) |->
                      CASE layout.cols[j].field = "date" -> r.date
                        [] layout.cols[j].field = "cust" -> r.cust
                        [] layout.cols[j].field = "amt"  -> r.amt
                        [] layout.cols[j].field = "prod" -> r.prod
                        [] OTHER                         -> r.qty]
    IN  Join(<<Join(header, layout.sep)>>
             \o [i \in 1..Len(sales) |-> Join(line(sales[i]), layout.sep)], "\n")
        \o <<"\n">>

\* The sales the files are made of: the rows of the specification's scenario
\* (Ali 10, Ali 5, Bee bad), a sale with an unreadable date, and one with no
\* customer and no product.
SalePool ==
    { [date |-> <<"0","1","/","0","2","/","2","0","2","4">>, cust |-> <<"A","l","i">>, amt |-> <<"1","0">>, prod |-> <<"P","e","n">>, qty |-> <<"1">>],
      [date |-> <<"0","2","/","0","2","/","2","0","2","4">>, cust |-> <<"A","l","i">>, amt |-> <<"5">>, prod |-> <<"I","n","k">>, qty |-> <<"2">>],
      [date |-> <<"0","1","/","0","2","/","2","0","2","4">>, cust |-> <<"B","e","e">>, amt |-> <<"b","a","d">>, prod |-> <<"P","e","n">>, qty |-> <<"1">>],
      [date |-> <<"s","o","o","n">>, cust |-> <<"B","e","e">>, amt |-> <<"5">>, prod |-> <<"I","n","k">>, qty |-> <<"1">>],
      [date |-> <<"0","3","/","0","1","/","2","0","2","4">>, cust |-> <<>>, amt |-> <<"7">>, prod |-> <<>>, qty |-> <<"3">>] }

\* The headers the files come with.
Layouts ==
    { [sep |-> ",", cols |-> << [name |-> <<"D","a","t","e">>, field |-> "date"], [name |-> <<"C","u","s","t","o","m","e","r">>, field |-> "cust"], [name |-> <<"T","o","t","a","l">>, field |-> "amt"] >>],
      [sep |-> ";", cols |-> << [name |-> <<"P","r","o","d","u","c","t">>, field |-> "prod"], [name |-> <<"Q","t","y">>, field |-> "qty"], [name |-> <<"A","m","o","u","n","t">>, field |-> "amt"] >>],
      [sep |-> "\t", cols |-> << [name |-> <<"O","r","d","e","r"," ","D","a","t","e">>, field |-> "date"], [name |-> <<"C","u","s","t","o","m","e","r"," ","N","a","m","e">>, field |-> "cust"], [name |-> <<"I","t","e","m">>, field |-> "prod"], [name |-> <<"T","o","t","a","l"," ","A","m","o","u","n","t">>, field |-> "amt"] >>],
      [sep |-> ",", cols |-> << [name |-> <<"C","u","s","t","o","m","e","r">>, field |-> "cust"], [name |-> <<"T","o","t","a","l">>, field |-> "amt"] >>],
      [sep |-> ",", cols |-> << [name |-> <<"N","A","M","E">>, field |-> "prod"], [name |-> <<"C","u","s","t","o","m","e","r">>, field |-> "cust"], [name |-> <<"D","A","T","E">>, field |-> "date"], [name |-> <<"A","M","O","U","N","T">>, field |-> "amt"] >>],
      [sep |-> ",", cols |-> << [name |-> <<"I","t","e","m">>, field |-> "prod"], [name |-> <<"C","u","s","t","o","m","e","r">>, field |-> "cust"], [name |-> <<"D","a","t","e">>, field |-> "date"] >>],
      [sep |-> ",", cols |-> << [name |-> <<"N","o","t","e","s">>, field |-> "cust"] >>] }

ScenarioLayout ==
    [sep |-> ",", cols |-> << [name |-> <<"D","a","t","e">>, field |-> "date"], [name |-> <<"C","u","s","t","o","m","e","r">>, field |-> "cust"], [name |-> <<"T","o","t","a","l">>, field |-> "amt"] >>]

\* The file of the specification's scenario.
ScenarioFile ==
    CsvText(ScenarioLayout,
            << [date |-> <<"0","1","/","0","2","/","2","0","2","4">>, cust |-> <<"A","l","i">>, amt |-> <<"1","0">>, prod |-> <<"P","e","n">>, qty |-> <<"1">>],
               [date |-> <<"0","2","/","0","2","/","2","0","2","4">>, cust |-> <<"A","l","i">>, amt |-> <<"5">>, prod |-> <<"I","n","k">>, qty |-> <<"2">>],
               [date |-> <<"0","1","/","0","2","/","2","0","2","4">>, cust |-> <<"B","e","e">>, amt |-> <<"b","a","d">>, prod |-> <<"P","e","n">>, qty |-> <<"1">>] >>)

\* A file with more customers than the Home page ranks and more products
\* than the Products page ranks, every sale of another day and amount.
LongFile ==
    CsvText([sep |-> "\t", cols |-> << [name |-> <<"O","r","d","e","r"," ","D","a","t","e">>, field |-> "date"], [name |-> <<"C","u","s","t","o","m","e","r"," ","N","a","m","e">>, field |-> "cust"], [name |-> <<"I","t","e","m">>, field |-> "prod"], [name |-> <<"T","o","t","a","l"," ","A","m","o","u","n","t">>, field |-> "amt"] >>],
            [i \in 1..(TopProductsLimit + 1) |->
                [date |-> (IF i < 10 THEN <<"0">> ELSE << >>) \o NatText(i)
                          \o <<"/","0","2","/","2","0","2","4">>,
                 cust |-> <<"C">> \o NatText(IF i <= TopCustomersLimit + 1 THEN i ELSE 1),
                 amt  |-> NatText(i),
                 prod |-> <<"P">> \o NatText(i),
                 qty  |-> <<"1">>]])

SalesFiles ==
    { CsvText(l, sales) :
        l \in Layouts, sales \in UNION { [1..n -> SalePool] : n \in 0..MaxRows } }
    \cup { ScenarioFile, LongFile }

\* Raw uploads: every byte string up to MaxBytes over a letter, the three
\* delimiters, the line feed and an undecodable byte.
ByteAlphabet == { "x", ",", "\t", ";", "\n", BadByte }

RawFiles == UNION { [1..n -> ByteAlphabet] : n \in 0..MaxBytes }

(***************************************************************************)
(* The session                                                             *)
(***************************************************************************)

\* avail: the files the user has at hand (never changes);
\* uploaded: which of them is in the uploader, 0 for none;
\* session: st.session_state ("df" present or not, and the table);
\* page: the radio's value; out: what the last run showed.

NoFile == [has |-> FALSE, bytes |-> << >>]

FileAt(i) == IF i = 0 THEN NoFile ELSE [has |-> TRUE, bytes |-> avail[i]]

\* The script runs once when the session opens: no file, no stored table.
FirstRun ==
    /\ uploaded = 0
    /\ session = NoSession
    /\ page = Pages[1]
    /\ out \in {r.out : r \in Script(NoFile, NoSession, Pages[1], 1)}

Init ==
    /\ avail \in {<<a, ScenarioFile>> : a \in SalesFiles}
    /\ FirstRun

\* The same session with one file at hand, a raw upload or the scenario's.
InitIngest ==
    /\ avail \in {<<a>> : a \in RawFiles \cup {ScenarioFile}}
    /\ FirstRun

\* A widget changed: Streamlit reruns the script with the widgets' values.
Rerun(up, pg, pick) ==
    \E r \in Script(FileAt(up), session, pg, pick) :
        /\ uploaded' = up
        /\ page' = pg
        /\ session' = r.session
        /\ out' = r.out
        /\ UNCHANGED avail

\* The user puts file i into the uploader (replacing the one in it).
Upload(i) == Rerun(i, page, 1)

\* The user removes the file from the uploader.
ClearUpload == uploaded # 0 /\ Rerun(0, page, 1)

\* The user picks another page.
SelectPage(p) == p # page /\ Rerun(uploaded, p, 1)

\* The user picks entry k of the customer selectbox the last run showed.
PickCustomer(k) ==
    /\ page = "Customer Profile"
    /\ k \in 1..Len(out.options)
    /\ out.options[k] # out.selected
    /\ Rerun(uploaded, page, k)

Next ==
    \/ \E i \in 1..Len(avail) : Upload(i)
    \/ ClearUpload
    \/ \E p \in {Pages[i] : i \in 1..Len(Pages)} : SelectPage(p)
    \/ \E k \in 1..(TopProductsLimit + 1) : PickCustomer(k)

Spec == Init /\ [][Next]_vars

SpecIngest == InitIngest /\ [][Next]_vars

(***************************************************************************)
(* Properties of the Ingestor                                              *)
(***************************************************************************)

\* The run read the file in the uploader and its page assigns nothing to the
\* table, so the session holds exactly what try_read_csv returned.
Ingested == uploaded # 0 /\ page \in {"All Sales", "Products"}

\* The decoded text of the file in the uploader.
UploadedText == Decode(avail[uploaded])

\* The candidate delimiters in priority order: comma, tab, semicolon.
CandidateOrder == << ",", "\t", ";" >>

\* The text has a line that splits into two or more fields under sep.
HasWideRow(text, sep) ==
    \E line \in {Split(text, "\n")[i] : i \in 1..Len(Split(text, "\n"))} :
        Len(Split(line, sep)) >= 2

\* Parsing the text with candidate k neither fails nor gives at most one column.
Usable(text, k) ==
    /\ ~read_csv(text, CandidateOrder[k]).raised
    /\ NCols(read_csv(text, CandidateOrder[k]).df) > 1

\* Candidate k is the first usable one.
FirstUsable(text, k) == Usable(text, k) /\ \A j \in 1..(k - 1) : ~Usable(text, j)

\* C1 as stated: for every input in which some row has two or more columns
\* under a candidate delimiter, the Ingestor returns a non-empty table, the
\* parse with the first delimiter in priority order that gives more than one
\* column.
C1_WideRowGivesTable ==
    (Ingested /\ \E k \in 1..Len(CandidateOrder) : HasWideRow(UploadedText, CandidateOrder[k]))
    => /\ ~IsEmpty(session.df)
       /\ \E k \in 1..Len(CandidateOrder) :
            /\ FirstUsable(UploadedText, k)
            /\ session.df = read_csv(UploadedText, CandidateOrder[k]).df

\* C1 amended: for every input that some candidate delimiter parses, without
\* failing, into a table of more than one column, the Ingestor returns the
\* parse with the first such delimiter in the order comma, tab, semicolon; the
\* table has more than one column (and possibly no rows), and a later
\* candidate is used only when every earlier one failed or gave at most one
\* column.
C1_FirstUsableDelimiter ==
    Ingested
    => \A k \in 1..Len(CandidateOrder) :
          FirstUsable(UploadedText, k)
          => /\ session.df = read_csv(UploadedText, CandidateOrder[k]).df
             /\ NCols(session.df) > 1

\* C1's case: the comma parse failed, the tab parse gave one column, and the
\* semicolon parse was returned.
C1_LaterCandidateUsed ==
    /\ Ingested
    /\ read_csv(UploadedText, ",").raised
    /\ ~Usable(UploadedText, 2)
    /\ Usable(UploadedText, 3)
    /\ session.df = read_csv(UploadedText, ";").df
    /\ NCols(session.df) = 2

FirstMatch(cols, kws) ==
    IF \E j \in 1..Len(cols) : NameMatches(cols[j], kws)
    THEN CHOOSE j \in 1..Len(cols) :
            /\ NameMatches(cols[j], kws)
            /\ \A i \in 1..(j - 1) : ~NameMatches(cols[i], kws)
    ELSE 0

\* The amount a cell counts for: its number, the value of a text of digits,
\* zero for anything else.
AmountOf(c) ==
    IF c.k = "num" THEN c.v
    ELSE IF c.k = "str" /\ IsDigits(c.v) THEN DigitsValue(c.v)
    ELSE 0

\* The amounts of column j over the rows I of a table, added up.
RECURSIVE AmountOver(_, _, _)
AmountOver(df, j, I) ==
    IF I = {} THEN 0
    ELSE LET i == CHOOSE x \in I : TRUE
         IN  AmountOf(df.rows[i][j]) + AmountOver(df, j, I \ {i})

\* The sums of the entries of a grouping added up; -1 when a sum is no number.
RECURSIVE EntriesTotal(_)
EntriesTotal(entries) ==
    IF Len(entries) = 0 THEN 0
    ELSE IF entries[1].sum.k # "num" \/ EntriesTotal(Tail(entries)) = -1 THEN -1
    ELSE entries[1].sum.v + EntriesTotal(Tail(entries))

\* The rows of a table whose cell in column j is present.
KeyedRows(df, j) == {i \in 1..Len(df.rows) : ~IsNull(df.rows[i][j])}

\* The first row of a table with the given key in column j.
FirstRow(df, j, key) ==
    CHOOSE i \in 1..Len(df.rows) :
        /\ df.rows[i][j] = key
        /\ \A h \in 1..(i - 1) : df.rows[h][j] # key

\* C3: for every non-empty table and every view, when a role the view needs
\* matches no column the view ends with an explicit message, never with an
\* error.
C3_UnresolvedRoleIsExplicit ==
    (/\ session.has
     /\ ~IsEmpty(session.df)
     /\ \/ /\ page \in {"Home", "Customer Profile"}
           /\ \/ FirstMatch(session.df.columns, DateKeywords) = 0
              \/ FirstMatch(session.df.columns, CustomerKeywords) = 0
              \/ FirstMatch(session.df.columns, AmountKeywords) = 0
        \/ /\ page = "Products"
           /\ \/ FirstMatch(session.df.columns, ProductKeywords) = 0
              \/ FirstMatch(session.df.columns, AmountKeywords) = 0)
    => out.kind \in {"info", "warning"} /\ out.error = ""

\* The texts that ask for an upload.
UploadPrompts ==
    { "Upload CSV untuk mula analisis.", "Upload CSV untuk mula.",
      "Upload CSV untuk mula guna dashboard." }

\* C4: whenever the current table is the Ingestor's empty result, every view
\* shows a prompt to upload and resolves no role, aggregates nothing and
\* lists nothing.
C4_EmptyTablePromptsUpload ==
    (session.has /\ session.df = EmptyFrame)
    => /\ out.kind \in {"warning", "notice"}
       /\ out.message \in UploadPrompts
       /\ out.computed = {}

\* C5: after every run the table held for the session is the Ingestor's parse
\* of the most recently uploaded file: a run with a file in the uploader
\* leaves that file's parse, and a run without one leaves the table as it was.
C5_SessionHoldsTheParse ==
    [][/\ uploaded' # 0 => /\ session'.has
                           /\ session'.df = try_read_csv(avail[uploaded'])
       /\ uploaded' = 0 => session' = session]_vars

\* C6: the sales trend keeps the rows whose date is missing as one bucket
\* placed after every dated bucket, so the bucket sums add up to the sum of
\* the amounts the view totals.
C6_TrendKeepsNullDates ==
    /\ out.kind = "home"
       => /\ EntriesTotal(out.trend) = out.metrics.total_sales
          /\ (\E i \in 1..Len(session.df.rows) : IsNull(session.df.rows[i][out.roles.date]))
             => /\ Len(out.trend) > 0
                /\ IsNull(out.trend[Len(out.trend)].key)
    /\ out.kind = "profile"
       => EntriesTotal(out.trend) = out.card.total_spend

\* A ranking of the keys of column j: at most limit entries, one per key, the
\* sums per-key amount sums in non-increasing order, equal sums in the order
\* their keys first appear in the table.
Ranked(top, df, j, limit) ==
    /\ Len(top) <= limit
    /\ \A a, b \in 1..Len(top) : a # b => top[a].key # top[b].key
    /\ \A a \in 1..Len(top) : top[a].sum.k = "num"
    /\ \A a \in 1..(Len(top) - 1) :
          /\ top[a].sum.v >= top[a + 1].sum.v
          /\ top[a].sum.v = top[a + 1].sum.v
             => FirstRow(df, j, top[a].key) < FirstRow(df, j, top[a + 1].key)

\* C7: the top customers and the top products are rankings of at most ten and
\* twenty entries.
C7_RankingsAreOrdered ==
    /\ out.kind = "home"
       => Ranked(out.top, session.df, out.roles.customer, TopCustomersLimit)
    /\ out.kind = "products"
       => Ranked(out.top, session.df, out.roles.product, TopProductsLimit)

\* The entries of a grouping of column j that was not cut add up to the
\* amounts of the rows with a key.
AddsUp(entries, df, j, amt) ==
    EntriesTotal(entries) = AmountOver(df, amt, KeyedRows(df, j))

\* C8: the group sums of every grouping add up to the coerced amounts of the
\* rows whose key is present, on the Products page too, whatever views ran
\* before.
C8_GroupSumsAddUp ==
    /\ out.kind = "home"
       => /\ AddsUp(out.trend, session.df, out.roles.date, out.roles.amount)
          /\ Cardinality(Present(Column(session.df, out.roles.customer))) <= TopCustomersLimit
             => AddsUp(out.top, session.df, out.roles.customer, out.roles.amount)
    /\ (/\ out.kind = "products"
        /\ Cardinality(Present(Column(session.df, out.roles.product))) <= TopProductsLimit)
       => AddsUp(out.top, session.df, out.roles.product, out.roles.amount)

\* The table the run started from: the Ingestor's parse of the file in the
\* uploader, the table of the session when there is none.
RawTable == IF uploaded # 0 THEN try_read_csv(avail[uploaded]) ELSE session.df

\* The metrics of a raw table with the customer in column cust and the amount
\* in column amt: the amounts added up with anything unparseable counted as
\* zero, the number of rows, the number of distinct present customers, and
\* the first divided by the second, zero when there are no rows.
ExpectedMetrics(raw, cust, amt) ==
    [total_sales     |-> AmountOver(raw, amt, 1..Len(raw.rows)),
     total_orders    |-> Len(raw.rows),
     total_customers |-> Cardinality({raw.rows[i][cust] : i \in KeyedRows(raw, cust)}),
     avg_order       |-> IF Len(raw.rows) = 0 THEN [num |-> 0, den |-> 1]
                         ELSE [num |-> AmountOver(raw, amt, 1..Len(raw.rows)),
                               den |-> Len(raw.rows)]]

\* C9: whenever the Home page renders its metrics of a table, total
\* sales is the sum of the amount column with unparseable values counted as
\* zero, total orders the number of rows, total customers the number of
\* distinct non-null customers, and the average order total sales over total
\* orders; amounts 10, 5, bad of customers Ali, Ali, Bee give 15, 3, 2 and 5.
C9_HomeMetrics ==
    out.kind = "home"
    => /\ out.metrics = ExpectedMetrics(RawTable,
                                        FirstMatch(RawTable.columns, CustomerKeywords),
                                        FirstMatch(RawTable.columns, AmountKeywords))
       /\ (uploaded # 0 /\ avail[uploaded] = ScenarioFile)
          => /\ out.metrics.total_sales = 15
             /\ out.metrics.total_orders = 3
             /\ out.metrics.total_customers = 2
             /\ out.metrics.avg_order.num = 5 * out.metrics.avg_order.den

\* C9's case: the Home page rendered a file with an unparseable amount and a
\* sale without a customer.
C9_MetricsOfDirtyFile ==
    /\ uploaded # 0 /\ out.kind = "home"
    /\ \E i \in 1..Len(RawTable.rows) :
          /\ RawTable.rows[i][out.roles.amount].k = "str"
          /\ ~IsDigits(RawTable.rows[i][out.roles.amount].v)
    /\ \E i \in 1..Len(RawTable.rows) : IsNull(RawTable.rows[i][out.roles.customer])
    /\ out.metrics.total_sales > 0
    /\ out.metrics.total_customers = 1
    /\ out.metrics.total_orders = 2

\* The column a role resolves to in a table with the given columns.
RoleColumn(cols, role) ==
    CASE role = "date"     -> FirstMatch(cols, DateKeywords)
      [] role = "customer" -> FirstMatch(cols, CustomerKeywords)
      [] role = "amount"   -> FirstMatch(cols, AmountKeywords)
      [] OTHER             -> FirstMatch(cols, ProductKeywords)

\* C10: every role a view looks up resolves to the first column, in column
\* order, whose lower-cased name contains one of the role's keywords, or to
\* none; so every view resolves a role to the same column of the same table:
\* in a table with columns NAME, Customer, DATE, AMOUNT the customer is NAME,
\* the date DATE, the amount AMOUNT and the product none.
C10_RolesResolveToFirstMatch ==
    /\ \A role \in DOMAIN out.roles :
          out.roles[role] # NotAsked
          => out.roles[role] = RoleColumn(session.df.columns, role)
    /\ (/\ session.has
        /\ session.df.columns = << <<"N","A","M","E">>, <<"C","u","s","t","o","m","e","r">>,
                                   <<"D","A","T","E">>, <<"A","M","O","U","N","T">> >>)
       => /\ out.roles.customer \in {NotAsked, 1}
          /\ out.roles.date \in {NotAsked, 3}
          /\ out.roles.amount \in {NotAsked, 4}
          /\ out.roles.product \in {NotAsked, 0}

\* C10's case: two columns match the customer role and the Home page took
\* the first of them.
C10_FirstOfTwoMatches ==
    /\ out.kind = "home"
    /\ Len(MatchingColumns(session.df.columns, CustomerKeywords)) = 2
    /\ out.roles.customer = 1
    /\ out.roles.date = 3
    /\ out.roles.amount = 4

====
